---- MODULE Spec2Model ----
(***************************************************************************)
(* Sponsorship Manager API (src/main.py, src/schemas.py).                  *)
(*                                                                         *)
(* Strings whose characters the code inspects (identifiers, industries,    *)
(* names, due dates) are sequences of one-character strings; strings the   *)
(* code only copies are TLA+ strings.  Money is kept in thousandths of a   *)
(* currency unit, so that round(x, 2) is a real rounding step.             *)
(*                                                                         *)
(* db is the store handle imported from database.py: FALSE when no store   *)
(* is configured (db is None), TRUE otherwise.  `if db` in the handlers is *)
(* read as `db is not None`.  A sponsor document keeps the fields name,    *)
(* industry, status, notes and updated_at; the fields no handler reads or  *)
(* writes after creation are left out.  req and response are the request   *)
(* last handled and its answer; lastSet is a history of update_status.     *)
(***************************************************************************)
EXTENDS Integers, Sequences, FiniteSets, TLC

VARIABLES db, sponsors, followups, interactions, proposals, req, inflight, response, lastSet

vars == <<db, sponsors, followups, interactions, proposals, req, inflight, response, lastSet>>

\* Optional[T]: None is the empty set, a present value v is {v}
None == {}

Some(v) == {v}

Get(x) == CHOOSE v \in x : TRUE

\* ------------------------------------------------------------------------
\* Bounds of the model
\* ------------------------------------------------------------------------
MaxAudience == 1100
MaxProposals == 1
MaxIndustries == 2
MaxLimit == 6
MaxNegLimit == 1
MaxSponsors == 2
MaxStatusSponsors == 1
MaxExtraSponsors == 1
MaxFollowUps == 6
MaxInteractions == 1
MaxInFlight == 2

\* ------------------------------------------------------------------------
\* Character strings
\* ------------------------------------------------------------------------
Min(a, b) == IF a <= b THEN a ELSE b

Max(a, b) == IF a >= b THEN a ELSE b

UpperCase == <<"A","B","C","D","E","F","G","H","I","J","K","L","M",
               "N","O","P","Q","R","S","T","U","V","W","X","Y","Z">>

LowerCase == <<"a","b","c","d","e","f","g","h","i","j","k","l","m",
               "n","o","p","q","r","s","t","u","v","w","x","y","z">>

UpperSet == {UpperCase[i] : i \in 1..26}

LowerOf == [c \in UpperSet |-> LowerCase[CHOOSE i \in 1..26 : UpperCase[i] = c]]

\* str.lower() on one character
LowerChar(c) == IF c \in UpperSet THEN LowerOf[c] ELSE c

\* str.lower()
Lower(s) == [i \in 1..Len(s) |-> LowerChar(s[i])]

\* Python's `a in b` on strings
IsSubstring(a, b) ==
    \E k \in 0..(Len(b) - Len(a)) : \A i \in 1..Len(a) : b[k + i] = a[i]

\* str.replace(' ', '')
RECURSIVE RemoveSpaces(_)
RemoveSpaces(s) ==
    IF s = <<>> THEN <<>>
    ELSE IF Head(s) = " " THEN RemoveSpaces(Tail(s))
    ELSE <<Head(s)>> \o RemoveSpaces(Tail(s))

DigitChars == <<"0","1","2","3","4","5","6","7","8","9">>

\* str(n) for n >= 0
RECURSIVE Digits(_)
Digits(n) ==
    IF n < 10 THEN <<DigitChars[n + 1]>>
    ELSE Digits(n \div 10) \o <<DigitChars[(n % 10) + 1]>>

\* the three digits of a group after the first
Pad3(n) ==
    <<DigitChars[(n \div 100) + 1], DigitChars[((n \div 10) % 10) + 1], DigitChars[(n % 10) + 1]>>

\* format(n, ",") for n >= 0
RECURSIVE Grouped(_)
Grouped(n) ==
    IF n < 1000 THEN Digits(n)
    ELSE Grouped(n \div 1000) \o <<",">> \o Pad3(n % 1000)

\* Python's truth value of an Optional[int]: None and 0 are both falsy
TruthyInt(x) == x # None /\ x # Some(0)

\* Python's truth value of an Optional[str]: None and "" are both falsy
TruthyStr(x) == x # None /\ x # Some("")

\* Python's truth value of an Optional[List]: None and [] are both falsy
TruthyList(x) == x # None /\ x # Some(<<>>)

\* ------------------------------------------------------------------------
\* Proposal synthesizer
\* ------------------------------------------------------------------------
AudienceSizes == (0..MaxAudience) \cup {2000, 12345, 1000000, 1001001}

DemographicsInputs == {None, Some(""), Some("Families 25-44")}

ChannelInputs == {None, Some(<<>>), Some(<<"email">>), Some(<<"radio", "social">>)}

ProposalInputs ==
    [audience_size : {None} \cup {Some(n) : n \in AudienceSizes},
     demographics : DemographicsInputs,
     engagement_channels : ChannelInputs]

\* ", ".join(channels)
RECURSIVE JoinComma(_)
JoinComma(xs) ==
    IF Len(xs) = 1 THEN <<xs[1]>>
    ELSE <<xs[1], ", ">> \o JoinComma(Tail(xs))

SizePhrase(inp) ==
    IF TruthyInt(inp.audience_size)
    THEN <<"~">> \o Grouped(Get(inp.audience_size)) \o <<" attendees">>
    ELSE <<"audience aligned to your niche">>

DemoPhrase(inp) ==
    IF TruthyStr(inp.demographics) THEN <<Get(inp.demographics)>>
    ELSE <<"Mixed age groups with strong local presence">>

ChannelPhrase(inp) ==
    IF TruthyList(inp.engagement_channels) THEN JoinComma(Get(inp.engagement_channels))
    ELSE <<"email, social, on-site activations">>

synthesize_audience_summary(inp) ==
    <<"Projected reach ">> \o SizePhrase(inp)
        \o <<". Demographics: ">> \o DemoPhrase(inp)
        \o <<". Engagement via ">> \o ChannelPhrase(inp) \o <<".">>

\* round(x, 2) of x given in thousandths, result in thousandths (half to even)
Round2(k) ==
    LET q == k \div 10
        r == k % 10
    IN  IF r < 5 THEN q * 10
        ELSE IF r > 5 THEN (q + 1) * 10
        ELSE IF q % 2 = 0 THEN q * 10 ELSE (q + 1) * 10

\* the fallback of  inp.audience_size or 500
FallbackAudience == 500

\* the floor of  max(500, ...), in thousandths
FloorPrice == 500000

base_price_no_floor(inp) ==
    (IF TruthyInt(inp.audience_size) THEN Get(inp.audience_size) ELSE FallbackAudience) * 500

\* max(500, (inp.audience_size or 500) * 0.5), in thousandths
base_price(inp) ==
    Max(FloorPrice,
        (IF TruthyInt(inp.audience_size) THEN Get(inp.audience_size) ELSE FallbackAudience) * 500)

default_tiers(inp) ==
    LET base == base_price(inp)
    IN  << [name |-> "Bronze", price |-> Round2(base), benefits |-> 3],
           [name |-> "Silver", price |-> Round2(base * 2), benefits |-> 4],
           [name |-> "Gold", price |-> Round2((base \div 2) * 7), benefits |-> 5] >>

value_points(inp) == 4

MakeProposal(inp) ==
    [audience_summary |-> synthesize_audience_summary(inp),
     value_proposition |-> value_points(inp),
     tiers |-> default_tiers(inp)]

NoResponse == [op |-> "none"]

\* POST /api/proposals/generate
generate_proposal ==
    /\ req.kind = "proposal"
    /\ Len(proposals) < MaxProposals
    /\ IF db
       THEN /\ proposals' = Append(proposals, MakeProposal(req.inp))
            /\ response' = [op |-> "generate_proposal", code |-> 200,
                            body |-> MakeProposal(req.inp)]
       ELSE /\ proposals' = proposals
            /\ response' = [op |-> "generate_proposal", code |-> 500]
    /\ UNCHANGED <<db, sponsors, followups, interactions, req, inflight, lastSet>>

\* POST /api/proposals/export/pdf
export_proposal_pdf ==
    /\ req.kind = "proposal"
    /\ response' = [op |-> "export_proposal_pdf", code |-> 200,
                    body |-> MakeProposal(req.inp)]
    /\ UNCHANGED <<db, sponsors, followups, interactions, proposals, req, inflight, lastSet>>

InitProposal ==
    /\ db \in BOOLEAN
    /\ sponsors = <<>>
    /\ followups = <<>>
    /\ interactions = <<>>
    /\ proposals = <<>>
    /\ req \in [kind : {"proposal"}, inp : ProposalInputs]
    /\ inflight = <<>>
    /\ response = NoResponse
    /\ lastSet = << >>

NextProposal == generate_proposal \/ export_proposal_pdf

SpecProposal == InitProposal /\ [][NextProposal]_vars

\* ------------------------------------------------------------------------
\* Local sponsor finder
\* ------------------------------------------------------------------------
SEED_BUSINESSES ==
    << [name |-> <<"C","i","t","y"," ","F","i","t","n","e","s","s">>,
        industry |-> <<"H","e","a","l","t","h"," ","&"," ","W","e","l","l","n","e","s","s">>,
        website |-> "https://cityfitness.example"],
       [name |-> <<"B","r","e","w","e","d"," ","A","w","a","k","e","n","i","n","g","s">>,
        industry |-> <<"F","o","o","d"," ","&"," ","B","e","v","e","r","a","g","e">>,
        website |-> "https://brew.example"],
       [name |-> <<"G","r","e","e","n"," ","W","h","e","e","l","s"," ","B","i","k","e","s">>,
        industry |-> <<"R","e","t","a","i","l">>,
        website |-> "https://greenwheels.example"],
       [name |-> <<"T","e","c","h"," ","H","u","b"," ","C","o","-","W","o","r","k">>,
        industry |-> <<"T","e","c","h","n","o","l","o","g","y">>,
        website |-> "https://techhub.example"],
       [name |-> <<"R","i","v","e","r"," ","B","a","n","k"," ","C","r","e","d","i","t">>,
        industry |-> <<"F","i","n","a","n","c","e">>,
        website |-> "https://riverbank.example"] >>

IndustryTerms ==
    { <<"F","i","n","a","n","c","e">>,
      <<"F","I","N","A","N","C","E">>,
      <<"t","e","c","h">>,
      <<"e">>,
      <<>>,
      <<"L","a","w">> }

RECURSIVE SeqsUpTo(_, _)
SeqsUpTo(S, n) ==
    IF n = 0 THEN {<<>>}
    ELSE LET shorter == SeqsUpTo(S, n - 1)
         IN  shorter \cup {Append(q, x) : q \in shorter, x \in S}

FindRequests ==
    [location : {"Austin", "Reno"},
     industries : SeqsUpTo(IndustryTerms, MaxIndustries),
     limit : (0 - MaxNegLimit)..MaxLimit]

\* Python's  xs[:k]
SliceTo(xs, k) ==
    IF k >= 0 THEN SubSeq(xs, 1, Min(k, Len(xs)))
    ELSE SubSeq(xs, 1, Max(0, Len(xs) + k))

MatchesExact(industries, b) ==
    industries = <<>> \/ \E i \in 1..Len(industries) : industries[i] = b.industry

\* not req.industries or any(i.lower() in b["industry"].lower() for i in req.industries)
Matches(industries, b) ==
    \/ industries = <<>>
    \/ \E i \in 1..Len(industries) : IsSubstring(Lower(industries[i]), Lower(b.industry))

\* Sponsor(name=..., industry=..., location=req.location, email=..., phone=..., website=...)
Candidate(b, location) ==
    [name |-> b.name,
     industry |-> b.industry,
     location |-> location,
     email |-> Some(<<"info@">> \o Lower(RemoveSpaces(b.name)) \o <<".com">>),
     phone |-> Some("(555) 123-4567"),
     website |-> Some(b.website),
     status |-> "new",
     notes |-> None]

RECURSIVE CollectMatches(_, _)
CollectMatches(r, k) ==
    IF k > Len(SEED_BUSINESSES) THEN <<>>
    ELSE (IF Matches(r.industries, SEED_BUSINESSES[k])
          THEN <<Candidate(SEED_BUSINESSES[k], r.location)>>
          ELSE <<>>) \o CollectMatches(r, k + 1)

FindResult(r) == SliceTo(CollectMatches(r, 1), r.limit)

\* POST /api/sponsors/find
find_sponsors ==
    /\ req.kind = "find"
    /\ response' = [op |-> "find_sponsors", code |-> 200, body |-> FindResult(req.r)]
    /\ UNCHANGED <<db, sponsors, followups, interactions, proposals, req, inflight, lastSet>>

\* GET /
read_root ==
    /\ req.kind = "find"
    /\ response' = [op |-> "read_root", code |-> 200]
    /\ UNCHANGED <<db, sponsors, followups, interactions, proposals, req, inflight, lastSet>>

InitFind ==
    /\ db \in BOOLEAN
    /\ sponsors = <<>>
    /\ followups = <<>>
    /\ interactions = <<>>
    /\ proposals = <<>>
    /\ req \in [kind : {"find"}, r : FindRequests]
    /\ inflight = <<>>
    /\ response = NoResponse
    /\ lastSet = << >>

NextFind == find_sponsors \/ read_root

SpecFind == InitFind /\ [][NextFind]_vars

\* ------------------------------------------------------------------------
\* Document store (database.py) and the bson identifier type
\* ------------------------------------------------------------------------
HexLower == {"0","1","2","3","4","5","6","7","8","9","a","b","c","d","e","f"}

HexUpper == {"A","B","C","D","E","F"}

HexDigitSeq == <<"0","1","2","3","4","5","6","7","8","9","a","b","c","d","e","f">>

OidLen == 24

\* the low-order value from which the model's store counts generated identifiers
GenBase == 160

RECURSIVE HexDigits(_)
HexDigits(n) ==
    IF n < 16 THEN <<HexDigitSeq[n + 1]>>
    ELSE HexDigits(n \div 16) \o <<HexDigitSeq[(n % 16) + 1]>>

Zeros(n) == [i \in 1..n |-> "0"]

\* the n-th identifier the store generates, as insert_one's inserted_id
GenOid(n) ==
    LET h == HexDigits(GenBase + n) IN Zeros(OidLen - Len(h)) \o h

\* ObjectId(s) succeeds exactly on 24 hexadecimal characters of either case
IsValidOid(s) ==
    /\ Len(s) = OidLen
    /\ \A i \in 1..Len(s) : s[i] \in HexLower \cup HexUpper

\* the value of ObjectId(s): its 12 bytes, written as lower-case hexadecimal
ObjectId(s) == Lower(s)

\* str(oid)
OidStr(oid) == oid

\* create_document(collection_name, data) on an available store: the
\* collection after insert_one, the new document last
create_document(coll, data) ==
    Append(coll, [f \in DOMAIN data \cup {"_id"} |->
                     IF f = "_id" THEN GenOid(Len(coll) + 1) ELSE data[f]])

\* the id create_document returns: str(result.inserted_id)
created_id(coll) == OidStr(GenOid(Len(coll) + 1))

RECURSIVE FilterDocs(_, _)
FilterDocs(coll, filt) ==
    IF coll = <<>> THEN <<>>
    ELSE (IF \A f \in DOMAIN filt : Head(coll)[f] = filt[f] THEN <<Head(coll)>> ELSE <<>>)
             \o FilterDocs(Tail(coll), filt)

\* get_documents(collection_name, filter_dict, limit)
get_documents(coll, filt, limit) ==
    SubSeq(FilterDocs(coll, filt), 1, Min(limit, Len(FilterDocs(coll, filt))))

\* the $set of an update: named fields replaced, the others kept
SetFields(doc, set) ==
    [f \in DOMAIN doc |-> IF f \in DOMAIN set THEN set[f] ELSE doc[f]]

update_one_terminal(coll, oid, set) ==
    [i \in 1..Len(coll) |->
        IF coll[i]._id = oid /\ coll[i].status # "declined"
        THEN SetFields(coll[i], set) ELSE coll[i]]

\* collection.update_one({"_id": oid}, {"$set": set}): no upsert
update_one(coll, oid, set) ==
    [i \in 1..Len(coll) |-> IF coll[i]._id = oid THEN SetFields(coll[i], set) ELSE coll[i]]

\* collection.count_documents({"status": s})
count_documents(coll, s) == Cardinality({i \in 1..Len(coll) : coll[i].status = s})

\* collection.find_one({"_id": oid}): None or the document
find_one(coll, oid) ==
    IF \E i \in 1..Len(coll) : coll[i]._id = oid
    THEN Some(coll[CHOOSE i \in 1..Len(coll) : coll[i]._id = oid])
    ELSE None

Exists(coll, oid) == \E i \in 1..Len(coll) : coll[i]._id = oid

\* ------------------------------------------------------------------------
\* Tracking and CRM
\* ------------------------------------------------------------------------
\* schemas.Sponsor.status
Statuses == {"new", "contacted", "in_discussion", "pending", "confirmed", "declined"}

\* pydantic's validation of a Literal status field
ValidStatus(st) == st \in Statuses

Ok == [ok |-> TRUE]

\* history: the last successful update_status per sponsor, with the status it replaced
RecordSet(h, oid, old, new) ==
    [o \in DOMAIN h \cup {oid} |-> IF o = oid THEN [from |-> old, to |-> new] ELSE h[o]]

Resp(op, code, body) == [op |-> op, code |-> code, body |-> body]

\* POST /api/sponsors/create
create_sponsor(names, industries, statuses, notes, cap) ==
    \E n \in names, ind \in industries, st \in statuses, nt \in notes :
        LET data == [name |-> n, industry |-> ind, status |-> st, notes |-> nt,
                     updated_at |-> None]
        IN  /\ Len(sponsors) < cap
            /\ req' = [op |-> "create_sponsor", sponsor |-> data]
            /\ IF ~ValidStatus(st)
               THEN /\ response' = Resp("create_sponsor", 422, None)
                    /\ sponsors' = sponsors
               ELSE IF ~db
               THEN /\ response' = Resp("create_sponsor", 500, None)
                    /\ sponsors' = sponsors
               ELSE /\ sponsors' = create_document(sponsors, data)
                    /\ response' = Resp("create_sponsor", 200, Some(created_id(sponsors)))
            /\ UNCHANGED <<db, followups, interactions, proposals, inflight, lastSet>>

\* limit=100 of list_sponsors
ListCap == 100

ListFilterNone(status) == << >>

\* {"status": status} if status else {}
ListFilter(status) ==
    IF TruthyStr(status) THEN [status |-> Get(status)] ELSE << >>

\* d["_id"] = str(d["_id"])
Jsonify(docs) == [i \in 1..Len(docs) |-> SetFields(docs[i], [_id |-> OidStr(docs[i]._id)])]

\* GET /api/sponsors
list_sponsors(statuses) ==
    \E st \in statuses :
        /\ req' = [op |-> "list_sponsors", status |-> st]
        /\ IF ~db
           THEN response' = Resp("list_sponsors", 500, None)
           ELSE response' = Resp("list_sponsors", 200,
                                 Some(Jsonify(get_documents(sponsors, ListFilter(st), ListCap))))
        /\ UNCHANGED <<db, sponsors, followups, interactions, proposals, inflight, lastSet>>

StatusSetClobber(st, t) == [status |-> st, updated_at |-> Some(t), notes |-> None]

\* {"status": req.status, "updated_at": datetime.utcnow()}
StatusSet(st, t) == [status |-> st, updated_at |-> Some(t)]

\* {"notes": req.note, "updated_at": datetime.utcnow()}
NoteSet(note, t) == [notes |-> Some(note), updated_at |-> Some(t)]

\* POST /api/sponsors/status
update_status(ids, statuses, times) ==
    \E id \in ids, st \in statuses, t \in times :
        /\ req' = [op |-> "update_status", sponsor_id |-> id, status |-> st]
        /\ IF ~ValidStatus(st)
           THEN /\ response' = Resp("update_status", 422, None)
                /\ sponsors' = sponsors
           ELSE IF ~db
           THEN /\ response' = Resp("update_status", 500, None)
                /\ sponsors' = sponsors
           ELSE IF ~IsValidOid(id)
           THEN /\ response' = Resp("update_status", 400, None)
                /\ sponsors' = sponsors
           ELSE /\ sponsors' = update_one(sponsors, ObjectId(id), StatusSet(st, t))
                /\ response' = Resp("update_status", 200, Some(Ok))
        /\ lastSet' = IF response'.code = 200 /\ Exists(sponsors, ObjectId(id))
                      THEN RecordSet(lastSet, ObjectId(id),
                                     Get(find_one(sponsors, ObjectId(id))).status, st)
                      ELSE lastSet
        /\ UNCHANGED <<db, followups, interactions, proposals, inflight>>

\* POST /api/sponsors/note
add_note(ids, notes, times) ==
    \E id \in ids, nt \in notes, t \in times :
        /\ req' = [op |-> "add_note", sponsor_id |-> id, note |-> nt]
        /\ IF ~IsValidOid(id)
           THEN /\ response' = Resp("add_note", 400, None)
                /\ sponsors' = sponsors
           ELSE IF ~db
           THEN /\ response' = Resp("add_note", 500, None)
                /\ sponsors' = sponsors
           ELSE /\ sponsors' = update_one(sponsors, ObjectId(id), NoteSet(nt, t))
                /\ response' = Resp("add_note", 200, Some(Ok))
        /\ UNCHANGED <<db, followups, interactions, proposals, inflight, lastSet>>

\* schemas.Interaction.type
InteractionTypes == {"email", "call", "meeting", "note"}

\* POST /api/sponsors/interaction
log_interaction(ids, types) ==
    \E id \in ids, ty \in types :
        LET data == [sponsor_id |-> id, type |-> ty, content |-> "text"]
        IN  /\ Len(interactions) < MaxInteractions
            /\ req' = [op |-> "log_interaction", interaction |-> data]
            /\ IF ty \notin InteractionTypes
               THEN /\ response' = Resp("log_interaction", 422, None)
                    /\ interactions' = interactions
               ELSE IF ~db
               THEN /\ response' = Resp("log_interaction", 500, None)
                    /\ interactions' = interactions
               ELSE /\ interactions' = create_document(interactions, data)
                    /\ response' = Resp("log_interaction", 200, Some(created_id(interactions)))
            /\ UNCHANGED <<db, sponsors, followups, proposals, inflight, lastSet>>

\* POST /api/sponsors/followup
schedule_followup(ids, dates) ==
    \E id \in ids, d \in dates :
        LET data == [sponsor_id |-> id, due_date |-> d, note |-> None]
        IN  /\ Len(followups) < MaxFollowUps
            /\ req' = [op |-> "schedule_followup", followup |-> data]
            /\ IF ~db
               THEN /\ response' = Resp("schedule_followup", 500, None)
                    /\ followups' = followups
               ELSE /\ followups' = create_document(followups, data)
                    /\ response' = Resp("schedule_followup", 200, Some(created_id(followups)))
            /\ UNCHANGED <<db, sponsors, interactions, proposals, inflight, lastSet>>

\* the characters of a due date, in code-point order
DateAlphabet == <<"-","0","1","2","3","4","5","6","7","8","9">>

CharOrd(c) == CHOOSE i \in 1..Len(DateAlphabet) : DateAlphabet[i] = c

\* a < b on strings
StrLess(a, b) ==
    \/ \E k \in 1..Min(Len(a), Len(b)) :
          /\ \A j \in 1..(k - 1) : a[j] = b[j]
          /\ CharOrd(a[k]) < CharOrd(b[k])
    \/ /\ Len(a) < Len(b)
       /\ \A j \in 1..Len(a) : a[j] = b[j]

StrLeq(a, b) == a = b \/ StrLess(a, b)

\* d placed after the last element whose due_date is <= its own
InsertByDueDate(sorted, d) ==
    LET n == Cardinality({i \in 1..Len(sorted) : StrLeq(sorted[i].due_date, d.due_date)})
    IN  SubSeq(sorted, 1, n) \o <<d>> \o SubSeq(sorted, n + 1, Len(sorted))

RECURSIVE SortByDueDate(_)
SortByDueDate(docs) ==
    IF docs = <<>> THEN <<>>
    ELSE InsertByDueDate(SortByDueDate(SubSeq(docs, 1, Len(docs) - 1)), docs[Len(docs)])

\* .limit(5) of dashboard_overview
UpcomingLimit == 5

\* statuses of dashboard_overview
DashboardStatusesShort == <<"new", "contacted", "in_discussion", "pending", "confirmed">>

DashboardStatuses == <<"new", "contacted", "in_discussion", "pending", "confirmed", "declined">>

UpcomingUnsorted(coll) == SubSeq(coll, 1, Min(UpcomingLimit, Len(coll)))

\* list(db["followup"].find({}).sort("due_date", 1).limit(5)); follow-ups
\* with equal due_date stay in insertion order
Upcoming(coll) ==
    SubSeq(SortByDueDate(coll), 1, Min(UpcomingLimit, Len(coll)))

Overview ==
    [counts |-> [s \in {DashboardStatuses[i] : i \in 1..Len(DashboardStatuses)} |->
                    IF db THEN count_documents(sponsors, s) ELSE 0],
     upcoming_followups |-> IF db THEN Jsonify(Upcoming(followups)) ELSE <<>>]

\* GET /api/dashboard
dashboard_overview ==
    /\ req' = [op |-> "dashboard_overview"]
    /\ response' = Resp("dashboard_overview", 200, Some(Overview))
    /\ UNCHANGED <<db, sponsors, followups, interactions, proposals, inflight, lastSet>>

\* ------------------------------------------------------------------------
\* Outreach tools
\* ------------------------------------------------------------------------
\* schemas.GenerateEmailRequest.tone
Tones == {"professional", "friendly", "concise"}

\* sponsor = db["sponsor"].find_one({"_id": ObjectId(req.sponsor_id)}), None on any failure
EmailSponsor(id) ==
    IF db /\ id # <<>>
    THEN IF IsValidOid(id) THEN find_one(sponsors, ObjectId(id)) ELSE None
    ELSE None

EmailCompany(id) ==
    IF EmailSponsor(id) # None THEN Get(EmailSponsor(id)).name ELSE "Partner"

EmailSubject(id) == <<"Sponsorship Opportunity: ", EmailCompany(id), " x Our Event">>

EmailBody(id) ==
    << "Hello ",
       IF EmailCompany(id) # "Partner" THEN EmailCompany(id) ELSE "there",
       ",\n\n",
       "I'm reaching out to explore a potential sponsorship partnership. Based on your focus in ",
       IF EmailSponsor(id) # None THEN Get(EmailSponsor(id)).industry ELSE "your industry",
       ", we believe there's strong alignment with our audience.\n\n",
       "Happy to send a tailored proposal and discuss options (Bronze, Silver, Gold) suited to your goals.\n\n",
       "Best regards,\nYour Name" >>

\* POST /api/outreach/email
generate_outreach_email(ids, tones) ==
    \E id \in ids, tone \in tones :
        /\ req' = [op |-> "generate_outreach_email", sponsor_id |-> id, tone |-> tone]
        /\ IF tone \notin Tones
           THEN response' = Resp("generate_outreach_email", 422, None)
           ELSE response' = Resp("generate_outreach_email", 200,
                                 Some([subject |-> EmailSubject(id), body |-> EmailBody(id)]))
        /\ UNCHANGED <<db, sponsors, followups, interactions, proposals, inflight, lastSet>>

\* ------------------------------------------------------------------------
\* Request-parallel execution of update_status and add_note: one step per
\* handler for its local checks, one for its single update_one on the store
\* ------------------------------------------------------------------------
InFlight(op, id, arg) ==
    [op |-> op, sponsor_id |-> id, arg |-> arg, pc |-> "start", code |-> 0, matched |-> FALSE]

\* a validated UpdateStatusRequest reaches update_status
recv_update_status(ids, statuses) ==
    \E id \in ids, st \in statuses :
        /\ Len(inflight) < MaxInFlight
        /\ ValidStatus(st)
        /\ inflight' = Append(inflight, InFlight("update_status", id, st))
        /\ UNCHANGED <<db, sponsors, followups, interactions, proposals, req, response, lastSet>>

\* a validated AddNoteRequest reaches add_note
recv_add_note(ids, notes) ==
    \E id \in ids, nt \in notes :
        /\ Len(inflight) < MaxInFlight
        /\ inflight' = Append(inflight, InFlight("add_note", id, nt))
        /\ UNCHANGED <<db, sponsors, followups, interactions, proposals, req, response, lastSet>>

Finish(r, code, matched) == [r EXCEPT !.pc = "done", !.code = code, !.matched = matched]

\* the handler's checks before it touches the store
step_check ==
    \E i \in 1..Len(inflight) :
        LET r == inflight[i]
        IN  /\ r.pc = "start"
            /\ inflight' =
                 [inflight EXCEPT ![i] =
                    IF r.op = "update_status" /\ ~db THEN Finish(r, 500, FALSE)
                    ELSE IF ~IsValidOid(r.sponsor_id) THEN Finish(r, 400, FALSE)
                    ELSE [r EXCEPT !.pc = "update"]]
            /\ UNCHANGED <<db, sponsors, followups, interactions, proposals, req, response, lastSet>>

\* the handler's update_one and its return
step_update(times) ==
    \E i \in 1..Len(inflight), t \in times :
        LET r == inflight[i]
            oid == ObjectId(r.sponsor_id)
        IN  /\ r.pc = "update"
            /\ IF ~db
               THEN /\ inflight' = [inflight EXCEPT ![i] = Finish(r, 500, FALSE)]
                    /\ UNCHANGED <<sponsors, lastSet>>
               ELSE /\ sponsors' = update_one(sponsors, oid,
                                      IF r.op = "update_status" THEN StatusSet(r.arg, t)
                                      ELSE NoteSet(r.arg, t))
                    /\ inflight' = [inflight EXCEPT ![i] = Finish(r, 200, Exists(sponsors, oid))]
                    /\ lastSet' = IF r.op = "update_status" /\ Exists(sponsors, oid)
                                  THEN RecordSet(lastSet, oid,
                                                 Get(find_one(sponsors, oid)).status, r.arg)
                                  ELSE lastSet
            /\ UNCHANGED <<db, followups, interactions, proposals, req, response>>

\* ------------------------------------------------------------------------
\* Inputs and specifications
\* ------------------------------------------------------------------------
NoRequest == [op |-> "none"]

\* a well-formed identifier in upper case
Upper(s) == [i \in 1..Len(s) |->
               IF \E k \in 1..26 : LowerCase[k] = s[i]
               THEN UpperCase[CHOOSE k \in 1..26 : LowerCase[k] = s[i]]
               ELSE s[i]]

MalformedIds == { <<>>, <<"x","y","z">>, Zeros(OidLen - 1) \o <<"g">>, Zeros(OidLen + 1) }

\* identifiers of the sponsors the store can hold, one in upper case, and malformed ones
TrackerIds ==
    {OidStr(GenOid(n)) : n \in 1..MaxSponsors} \cup {Upper(OidStr(GenOid(1)))} \cup MalformedIds

NothingElse ==
    /\ followups = <<>>
    /\ interactions = <<>>
    /\ proposals = <<>>
    /\ inflight = <<>>
    /\ lastSet = << >>
    /\ req = NoRequest
    /\ response = NoResponse

EmptyStore == sponsors = <<>> /\ NothingElse

InitTracker == db \in BOOLEAN /\ EmptyStore

NextTracker ==
    \/ create_sponsor({"Acme Co"}, {"Retail"}, {"new"}, {None}, MaxSponsors)
    \/ update_status(TrackerIds, {"contacted", "archived"}, {1})
    \/ add_note(TrackerIds, {"call back"}, {1})
    \/ log_interaction({OidStr(GenOid(1)), <<"x","y","z">>}, {"call", "fax"})

SpecTracker == InitTracker /\ [][NextTracker]_vars

StatusIds == {OidStr(GenOid(n)) : n \in 1..MaxStatusSponsors} \cup {<<"x","y","z">>}

InitStatus == db \in BOOLEAN /\ EmptyStore

\* every status a sponsor can be created with and every status it can be set to
NextStatus ==
    \/ create_sponsor({"Acme Co"}, {"Retail"}, Statuses \cup {"archived"}, {None},
                      MaxStatusSponsors)
    \/ update_status(StatusIds, Statuses \cup {"archived"}, {1})

SpecStatus == InitStatus /\ [][NextStatus]_vars

DashboardIds == {OidStr(GenOid(n)) : n \in 1..MaxSponsors}

InitDashboard == db \in BOOLEAN /\ EmptyStore

NextDashboard ==
    \/ create_sponsor({"Acme Co"}, {"Retail"}, Statuses \cup {"archived"}, {None}, MaxSponsors)
    \/ update_status(DashboardIds, {"confirmed", "declined", "archived"}, {1})
    \/ dashboard_overview

SpecDashboard == InitDashboard /\ [][NextDashboard]_vars

InitEmail == db \in BOOLEAN /\ EmptyStore

NextEmail ==
    \/ create_sponsor({"Acme Co", "Partner"}, {"Retail", "Finance"}, {"new"}, {None}, MaxSponsors)
    \/ add_note(TrackerIds, {"call back"}, {1})
    \/ generate_outreach_email(TrackerIds, Tones)

SpecEmail == InitEmail /\ [][NextEmail]_vars

DueDates == { <<"2","0","2","5","-","0","1","-","0","9">>,
              <<"2","0","2","5","-","0","1","-","1","0">> }

InitFollowUp == db \in BOOLEAN /\ EmptyStore

NextFollowUp ==
    \/ create_sponsor({"Acme Co"}, {"Retail"}, {"new"}, {None}, 1)
    \/ schedule_followup({OidStr(GenOid(1)), <<"n","o","n","e">>}, DueDates)
    \/ dashboard_overview

SpecFollowUp == InitFollowUp /\ [][NextFollowUp]_vars

\* the collection after k create_sponsor requests with default fields
Prefilled(k) ==
    [n \in 1..k |-> [_id |-> GenOid(n), name |-> "Acme Co", industry |-> "Retail",
                     status |-> "new", notes |-> None, updated_at |-> None]]

\* the store is persistent: a process starts on an empty collection or on one
\* that earlier create_sponsor requests filled up to the cap of list_sponsors
InitList ==
    /\ db = TRUE
    /\ sponsors \in {Prefilled(0), Prefilled(ListCap)}
    /\ NothingElse

ListIds ==
    { OidStr(GenOid(1)), OidStr(GenOid(ListCap + 1)), Zeros(OidLen - 1) \o <<"g">> }

NextList ==
    \/ create_sponsor({"Acme Co"}, {"Retail"}, {"new"}, {None},
                      (IF Len(sponsors) >= ListCap THEN ListCap ELSE 0) + MaxExtraSponsors)
    \/ update_status(ListIds, {"new", "confirmed"}, {1})
    \/ add_note(ListIds, {"call back"}, {1})
    \/ list_sponsors({None, Some(""), Some("new"), Some("confirmed"), Some("declined")})

SpecList == InitList /\ [][NextList]_vars

ConcIds == { OidStr(GenOid(1)), OidStr(GenOid(2)), <<"x","y","z">> }

InitConc == db \in BOOLEAN /\ EmptyStore

NextConc ==
    \/ create_sponsor({"Acme Co"}, {"Retail"}, {"new"}, {None}, MaxSponsors)
    \/ recv_update_status(ConcIds, {"confirmed", "declined"})
    \/ recv_add_note(ConcIds, {"call back", "send deck"})
    \/ step_check
    \/ step_update({1})

SpecConc == InitConc /\ [][NextConc]_vars

\* ------------------------------------------------------------------------
\* Properties
\* ------------------------------------------------------------------------
SixStatuses == {"new", "contacted", "in_discussion", "pending", "confirmed", "declined"}

IsMutation == response.op \in {"update_status", "add_note"} /\ response.code # 422 /\ db

\* C1 (as claimed): update_status and add_note answer a malformed sponsor_id
\* with 400 (InvalidIdentifier), a well-formed sponsor_id of no stored sponsor
\* with 404 (NotFound), and report success only for the id of a stored
\* sponsor; a failing request changes no sponsor document.
C1_ThreeOutcomes ==
    /\ [](IsMutation =>
            IF ~IsValidOid(req.sponsor_id) THEN response.code = 400
            ELSE IF ~Exists(sponsors, ObjectId(req.sponsor_id)) THEN response.code = 404
            ELSE response.code = 200)
    /\ [][(response'.op \in {"update_status", "add_note"} /\ response'.code # 200)
             => sponsors' = sponsors]_vars

\* C5 (amended): exactly the tiers Bronze, Silver, Gold in this order, priced
\* base, 2 * base and 3.5 * base to two decimals, where base is
\* max(500, audience_size * 0.5) for a given audience_size and 500 for an
\* absent one; the prices increase strictly.
C5_TierPricing ==
    (response.op \in {"generate_proposal", "export_proposal_pdf"} /\ response.code = 200) =>
        LET t == response.body.tiers
            a == req.inp.audience_size
            base == IF a # None THEN Max(500000, Get(a) * 500) ELSE 500000
        IN  /\ Len(t) = 3
            /\ <<t[1].name, t[2].name, t[3].name>> = <<"Bronze", "Silver", "Gold">>
            /\ t[1].price = base
            /\ t[2].price = 2 * base
            /\ t[3].price = (base \div 2) * 7 /\ base % 2 = 0
            /\ \A i \in 1..3 : t[i].price % 10 = 0
            /\ t[1].price < t[2].price /\ t[2].price < t[3].price

\* C5 witness: a proposal generated for an input without audience_size
C5_Witness ==
    /\ response.op = "generate_proposal" /\ response.code = 200
    /\ req.inp.audience_size = None
    /\ response.body.tiers[1].price = 500000
    /\ response.body.tiers[3].price = 1750000

\* C5 (as claimed): as above, but base = 250 for an absent audience_size
C5_TierPricingAsClaimed ==
    (response.op \in {"generate_proposal", "export_proposal_pdf"} /\ response.code = 200) =>
        LET t == response.body.tiers
            a == req.inp.audience_size
            base == IF a # None THEN Max(500000, Get(a) * 500) ELSE 250000
        IN  /\ Len(t) = 3
            /\ <<t[1].name, t[2].name, t[3].name>> = <<"Bronze", "Silver", "Gold">>
            /\ t[1].price = base
            /\ t[2].price = 2 * base
            /\ t[3].price = (base \div 2) * 7 /\ base % 2 = 0
            /\ t[1].price < t[2].price /\ t[2].price < t[3].price

\* the reach phrase that tells a present audience_size from an absent one
C10_SizePhrase(inp) ==
    IF inp.audience_size # None
    THEN <<"~">> \o Grouped(Get(inp.audience_size)) \o <<" attendees">>
    ELSE <<"audience aligned to your niche">>

\* C10 (as claimed): the summary is reach, demographics, channels in this
\* order, and its reach phrase is the thousands-grouped attendee count for
\* every present audience_size, 0 included, the generic phrase only for an
\* absent one.
C10_ReachPhrase ==
    (response.op \in {"generate_proposal", "export_proposal_pdf"} /\ response.code = 200) =>
        response.body.audience_summary =
            <<"Projected reach ">> \o C10_SizePhrase(req.inp)
                \o <<". Demographics: ">> \o DemoPhrase(req.inp)
                \o <<". Engagement via ">> \o ChannelPhrase(req.inp) \o <<".">>

\* the catalog positions a find request matches
C6_Matching(r) ==
    {k \in 1..Len(SEED_BUSINESSES) :
        \/ r.industries = <<>>
        \/ \E i \in 1..Len(r.industries) :
              IsSubstring(Lower(r.industries[i]), Lower(SEED_BUSINESSES[k].industry))}

\* the i-th smallest element of a set of positions
C6_Nth(M, i) == CHOOSE k \in M : Cardinality({j \in M : j < k}) = i - 1

\* C6: for limit >= 0, find_sponsors returns the first `limit` matching seed
\* businesses in catalog order, each with the request's location and status
\* new; so at most `limit` records, none for limit = 0, and the whole catalog
\* of five capped at `limit` for an empty industries list.
C6_FindSponsors ==
    (response.op = "find_sponsors" /\ req.r.limit >= 0) =>
        LET res == response.body
            M == C6_Matching(req.r)
        IN  /\ Len(res) = Min(req.r.limit, Cardinality(M))
            /\ Len(res) <= req.r.limit
            /\ (req.r.industries = <<>> => Len(res) = Min(req.r.limit, 5))
            /\ \A i \in 1..Len(res) :
                  /\ res[i].name = SEED_BUSINESSES[C6_Nth(M, i)].name
                  /\ res[i].industry = SEED_BUSINESSES[C6_Nth(M, i)].industry
                  /\ res[i].location = req.r.location
                  /\ res[i].status = "new"

\* C6 witness: a request in another letter case than the catalog, matching
\* more businesses than its limit allows
C6_Witness ==
    /\ response.op = "find_sponsors"
    /\ req.r.industries = << <<"F","I","N","A","N","C","E">>, <<"t","e","c","h">> >>
    /\ req.r.limit = 1
    /\ Len(response.body) = 1
    /\ response.body[1].website = Some("https://techhub.example")

DocOf(oid) == Get(find_one(sponsors, oid))

C2_ListedIds == {Get(response.body)[i]._id : i \in 1..Len(Get(response.body))}

\* the position of a sponsor among the stored sponsors of its own status
C2_Rank(oid) ==
    LET k == CHOOSE i \in 1..Len(sponsors) : sponsors[i]._id = oid
    IN  Cardinality({i \in 1..k : sponsors[i].status = sponsors[k].status})

C2_IsList == response.op = "list_sponsors" /\ response.code = 200

\* C2 (amended): a sponsor whose last successful update_status set status s
\* keeps status s through later create_sponsor and add_note requests;
\* list_sponsors(status=s) includes it exactly when it is among the first 100
\* stored sponsors of status s, list_sponsors(status=t) excludes it for every
\* other status t, and list_sponsors without a status returns the first 100
\* stored sponsors whatever their status.
C2_StatusRoundTrip ==
    /\ \A o \in DOMAIN lastSet : DocOf(o).status = lastSet[o].to
    /\ (C2_IsList /\ req.status \in {Some(s) : s \in SixStatuses}) =>
          \A o \in DOMAIN lastSet :
             IF lastSet[o].to = Get(req.status)
             THEN (o \in C2_ListedIds) <=> (C2_Rank(o) <= 100)
             ELSE o \notin C2_ListedIds
    /\ (C2_IsList /\ req.status = None) =>
          /\ Len(Get(response.body)) = Min(100, Len(sponsors))
          /\ \A i \in 1..Len(Get(response.body)) : Get(response.body)[i]._id = sponsors[i]._id

\* C2 witness: 101 stored sponsors of status new, the first and the last of
\* them set to new by update_status, and the list of status new just returned
C2_Witness ==
    /\ C2_IsList /\ req.status = Some("new")
    /\ Len(sponsors) = 101
    /\ GenOid(1) \in DOMAIN lastSet /\ lastSet[GenOid(1)].to = "new"
    /\ GenOid(101) \in DOMAIN lastSet /\ lastSet[GenOid(101)].to = "new"
    /\ GenOid(1) \in C2_ListedIds
    /\ GenOid(101) \notin C2_ListedIds

\* C2 (as claimed): list_sponsors(status=s) includes every sponsor whose last
\* successful update_status set s and list_sponsors(status=t) excludes it for
\* every other t; without a status the list is not filtered by status.
C2_StatusRoundTripAsClaimed ==
    /\ (C2_IsList /\ req.status \in {Some(s) : s \in SixStatuses}) =>
          \A o \in DOMAIN lastSet :
             (o \in C2_ListedIds) <=> (lastSet[o].to = Get(req.status))
    /\ (C2_IsList /\ req.status = None) =>
          \A i \in 1..Len(Get(response.body)) : Get(response.body)[i]._id = sponsors[i]._id

C3_Counts == Get(response.body).counts

\* C3: the counts of dashboard_overview have exactly the six status keys,
\* each value is the number of stored sponsors in that status, and the six
\* values add up to the number of stored sponsors.
C3_DashboardCounts ==
    response.op = "dashboard_overview" =>
        /\ DOMAIN C3_Counts = SixStatuses
        /\ \A s \in SixStatuses :
              C3_Counts[s] = Cardinality({i \in 1..Len(sponsors) : sponsors[i].status = s})
        /\ C3_Counts["new"] + C3_Counts["contacted"] + C3_Counts["in_discussion"]
             + C3_Counts["pending"] + C3_Counts["confirmed"] + C3_Counts["declined"]
             = Len(sponsors)

\* C3 witness: the dashboard of a store holding one new sponsor and one that
\* update_status moved to confirmed
C3_Witness ==
    /\ response.op = "dashboard_overview"
    /\ Len(sponsors) = 2
    /\ C3_Counts["new"] = 1 /\ C3_Counts["confirmed"] = 1 /\ C3_Counts["declined"] = 0
    /\ \E o \in DOMAIN lastSet : lastSet[o].to = "confirmed"

\* C4: every stored status is one of the six values, and update_status with
\* any of the six values on a stored sponsor succeeds and leaves the sponsor
\* in that status, whatever its status was before.
C4_AnyTransition ==
    /\ \A i \in 1..Len(sponsors) : sponsors[i].status \in SixStatuses
    /\ \A o \in DOMAIN lastSet : DocOf(o).status = lastSet[o].to
    /\ (/\ response.op = "update_status" /\ db
        /\ req.status \in SixStatuses
        /\ IsValidOid(req.sponsor_id)
        /\ Exists(sponsors, ObjectId(req.sponsor_id))) =>
          /\ response.code = 200
          /\ DocOf(ObjectId(req.sponsor_id)).status = req.status
          /\ ObjectId(req.sponsor_id) \in DOMAIN lastSet
          /\ lastSet[ObjectId(req.sponsor_id)].to = req.status

\* C4 witness: update_status has just taken a sponsor out of declined
C4_Witness ==
    /\ response.op = "update_status" /\ response.code = 200
    /\ \E o \in DOMAIN lastSet :
          /\ lastSet[o] = [from |-> "declined", to |-> "new"]
          /\ DocOf(o).status = "new"
          /\ req.sponsor_id = OidStr(o)

C7_IsDashboard == response.op = "dashboard_overview" /\ db

C7_Upcoming == Get(response.body).upcoming_followups

\* C7: schedule_followup stores a follow-up for any sponsor_id; the
\* upcoming_followups of dashboard_overview are min(5, n) of the n stored
\* follow-ups, in ascending order of due_date, none of the others being due
\* earlier than a listed one; and stored follow-ups are never changed or
\* removed.
C7_FollowUps ==
    /\ []((response.op = "schedule_followup" /\ db) =>
             /\ response.code = 200
             /\ followups[Len(followups)]._id = Get(response.body)
             /\ followups[Len(followups)].sponsor_id = req.followup.sponsor_id
             /\ followups[Len(followups)].due_date = req.followup.due_date)
    /\ [](C7_IsDashboard =>
             /\ Len(C7_Upcoming) = Min(5, Len(followups))
             /\ \A i \in 1..Len(C7_Upcoming) :
                   \E k \in 1..Len(followups) : followups[k] = C7_Upcoming[i]
             /\ \A i, j \in 1..Len(C7_Upcoming) : i # j => C7_Upcoming[i]._id # C7_Upcoming[j]._id
             /\ \A i, j \in 1..Len(C7_Upcoming) :
                   i < j => StrLeq(C7_Upcoming[i].due_date, C7_Upcoming[j].due_date)
             /\ \A k \in 1..Len(followups) :
                   (\A i \in 1..Len(C7_Upcoming) : C7_Upcoming[i]._id # followups[k]._id) =>
                       \A i \in 1..Len(C7_Upcoming) :
                           ~StrLess(followups[k].due_date, C7_Upcoming[i].due_date))
    /\ [][/\ Len(followups') >= Len(followups)
          /\ \A k \in 1..Len(followups) : followups'[k] = followups[k]]_vars

\* C7 witness: six follow-ups stored out of due_date order, for a stored
\* sponsor and for an unknown one, and the dashboard showing five of them
C7_Witness ==
    /\ C7_IsDashboard
    /\ Len(followups) = 6 /\ Len(C7_Upcoming) = 5
    /\ Len(sponsors) = 1
    /\ followups[1].sponsor_id = OidStr(sponsors[1]._id)
    /\ followups[2].sponsor_id = <<"n","o","n","e">>
    /\ StrLess(followups[6].due_date, followups[1].due_date)
    /\ C7_Upcoming[1] = followups[6]

C8_Email == Get(response.body)

C8_Known ==
    /\ db
    /\ IsValidOid(req.sponsor_id)
    /\ Exists(sponsors, ObjectId(req.sponsor_id))

\* C8 (as claimed): generate_outreach_email never fails on its sponsor_id;
\* for a stored sponsor the subject and the body carry the sponsor's name and
\* the body its industry, otherwise the subject names "Partner" and the body
\* the generic industry phrase; no stored sponsor changes.
C8_EmailFallback ==
    /\ [](response.op = "generate_outreach_email" =>
             /\ response.code = 200
             /\ IF C8_Known
                THEN /\ C8_Email.subject[2] = DocOf(ObjectId(req.sponsor_id)).name
                     /\ C8_Email.body[2] = DocOf(ObjectId(req.sponsor_id)).name
                     /\ C8_Email.body[5] = DocOf(ObjectId(req.sponsor_id)).industry
                ELSE /\ C8_Email.subject[2] = "Partner"
                     /\ C8_Email.body[5] = "your industry")
    /\ [][response'.op = "generate_outreach_email" => sponsors' = sponsors]_vars

C9_Written(op, oid) ==
    {inflight[i].arg : i \in {j \in 1..Len(inflight) :
        /\ inflight[j].matched
        /\ inflight[j].op = op
        /\ ObjectId(inflight[j].sponsor_id) = oid}}

\* C9: however update_status and add_note requests on one sponsor interleave,
\* the sponsor ends with a status that an update_status wrote (its first one
\* if none did) and with a note that an add_note wrote (none if none did);
\* the store update of either handler leaves every field but its own and
\* updated_at as it was.
C9_NoLostUpdate ==
    /\ [](\A k \in 1..Len(sponsors) :
            LET S == C9_Written("update_status", sponsors[k]._id)
                N == C9_Written("add_note", sponsors[k]._id)
            IN  /\ IF S = {} THEN sponsors[k].status = "new" ELSE sponsors[k].status \in S
                /\ IF N = {} THEN sponsors[k].notes = None
                   ELSE sponsors[k].notes \in {Some(n) : n \in N})
    /\ [][\A i \in 1..Len(inflight) :
            (inflight[i].pc = "update" /\ inflight'[i].pc = "done") =>
               \A k \in 1..Len(sponsors) :
                  /\ sponsors'[k]._id = sponsors[k]._id
                  /\ sponsors'[k].name = sponsors[k].name
                  /\ sponsors'[k].industry = sponsors[k].industry
                  /\ inflight[i].op = "update_status" => sponsors'[k].notes = sponsors[k].notes
                  /\ inflight[i].op = "add_note" => sponsors'[k].status = sponsors[k].status]_vars

\* C9 witness: an add_note and an update_status on the same stored sponsor,
\* both in flight together and both finished
C9_Witness ==
    /\ Len(inflight) = 2 /\ Len(sponsors) >= 1
    /\ inflight[1].op = "add_note" /\ inflight[2].op = "update_status"
    /\ inflight[1].matched /\ inflight[2].matched
    /\ inflight[1].sponsor_id = OidStr(sponsors[1]._id)
    /\ inflight[2].sponsor_id = OidStr(sponsors[1]._id)
    /\ sponsors[1].status = "confirmed"
    /\ sponsors[1].notes = Some("send deck")

====
